---------------------------- MODULE Spec2Model ----------------------------
(***************************************************************************)
(* The recursive-descent Parser of src/src/parser.rs as a state machine.   *)
(*                                                                         *)
(* The Parser struct's fields (tokens, crnt, id) are variables.  The Rust  *)
(* call stack is the variable `stack`: one frame per active parser method, *)
(* holding the method's name, the place it has reached (pc), the cursor at *)
(* entry (at) and its local variables (l).  Every parser method is one     *)
(* action, which runs the method from the place of its frame up to its     *)
(* next call of a recursive method, or to its return.  The cursor helpers  *)
(* (peek, check, is_token, advance, consume, ...) never recurse and are    *)
(* operators on the record p = [crnt, id, st, err]: st is "run" until a    *)
(* diagnostic is raised ("error", with err the diagnostic) or a slice      *)
(* index is out of range ("panic"); once st is not "run" every helper      *)
(* leaves p alone, as the process has ended.                               *)
(***************************************************************************)
EXTENDS Integers, Sequences, FiniteSets, TLC

VARIABLES tokens, crnt, id, stack, ret, status, err, result, run, trace, first

vars == <<tokens, crnt, id, stack, ret, status, err, result, run, trace, first>>

(***************************************************************************)
(* Bounds of the model.                                                    *)
(***************************************************************************)
\* longest enumerated token sequence (the end-of-input token not counted)
MaxLen == 3
\* deepest call stack: the Rust stack is finite, a deeper call aborts
MaxDepth == 48
\* most suffixes of an enumerated postfix chain
MaxChain == 2

(***************************************************************************)
(* Token vocabulary: src/src/ast/token.rs.                                 *)
(***************************************************************************)
to_string(t) ==
  CASE t = "Not" -> "!" [] t = "NotNot" -> "!!" [] t = "Tilde" -> "~"
    [] t = "Percent" -> "%" [] t = "And" -> "&" [] t = "AndAnd" -> "&&"
    [] t = "Mult" -> "*" [] t = "Square" -> "**" [] t = "LeftParen" -> "("
    [] t = "RightParen" -> ")" [] t = "Minus" -> "-" [] t = "Decr" -> "--"
    [] t = "Arrow" -> "->" [] t = "ArrowBig" -> "=>" [] t = "Underscore" -> "_"
    [] t = "Plus" -> "+" [] t = "Increment" -> "++" [] t = "Assign" -> "="
    [] t = "Eq" -> "==" [] t = "NotEq" -> "!=" [] t = "PlusEq" -> "+="
    [] t = "MinEq" -> "-=" [] t = "MultEq" -> "*=" [] t = "DivEq" -> "/="
    [] t = "LeftBrace" -> "{" [] t = "RightBrace" -> "}"
    [] t = "LeftBracket" -> "[" [] t = "RightBracket" -> "]"
    [] t = "Semi" -> ";" [] t = "Colon" -> ":" [] t = "DblColon" -> "::"
    [] t = "CharLit" -> "char literal" [] t = "StringLit" -> "string literal"
    [] t = "NumberLit" -> "number literal" [] t = "TrueLit" -> "true literal"
    [] t = "FalseLit" -> "false literal" [] t = "NullLit" -> "null literal"
    [] t = "ArrayLit" -> "array literal" [] t = "FuncIdent" -> "function type"
    [] t = "Less" -> "<" [] t = "LessOrEq" -> "<=" [] t = "Greater" -> ">"
    [] t = "GreaterOrEq" -> ">=" [] t = "Comma" -> "," [] t = "Dot" -> "."
    [] t = "DotDot" -> ".." [] t = "Divide" -> "/" [] t = "Escape" -> "\\"
    [] t = "StartParse" -> "\\{" [] t = "EndParse" -> "\\}"
    [] t = "Queston" -> "?" [] t = "Pipe" -> "|" [] t = "Or" -> "||"
    [] t = "Ident" -> "identifier" [] t = "Eof" -> "end of file"
    [] t = "Let" -> "let keyword" [] t = "If" -> "if keyword"
    [] t = "Else" -> "else keyword" [] t = "ElseIf" -> "elif keyword"
    [] t = "Return" -> "return keyword" [] t = "While" -> "while keyword"
    [] t = "Loop" -> "loop keyword" [] t = "Break" -> "break keyword"
    [] t = "Match" -> "match keyword" [] t = "Mod" -> "mod keyword"
    [] t = "Use" -> "use keyword" [] t = "As" -> "as keyword"
    [] t = "From" -> "from keyword" [] t = "Enum" -> "enum keyword"
    [] t = "Async" -> "async keyword" [] t = "Await" -> "await keyword"
    [] t = "Pub" -> "pub keyword" [] t = "Mut" -> "mut keyword"
    [] t = "Func" -> "function keyword" [] t = "NumberIdent" -> "number"
    [] t = "StringIdent" -> "string" [] t = "CharIdent" -> "char"
    [] t = "BoolIdent" -> "bool" [] t = "NullIdent" -> "null"
    [] t = "VoidIdent" -> "void" [] t = "ArrayIdent" -> "array"
    [] t = "AnyIdent" -> "any"

(***************************************************************************)
(* Values.  An Option is a record with the field `some`; a Token is        *)
(* {token, lexeme, value, line, pos}; a LiteralKind / LiteralType is a     *)
(* record tagged by `k`.                                                   *)
(***************************************************************************)
None == [some |-> FALSE]
Some(x) == [some |-> TRUE, v |-> x]

Token(t, lexeme, value, line, pos) ==
  [token |-> t, lexeme |-> lexeme, value |-> value, line |-> line, pos |-> pos]

\* the token prev() makes up when asked further back than the history
EofSentinel == Token("Eof", "\\0", None, 0, 0)


(***************************************************************************)
(* The cursor helpers, on p = [crnt, id, st, err].                         *)
(***************************************************************************)
NoErr == [code |-> "", pos |-> 0, args |-> <<>>]

\* the value v under the name the operator K gives it (a `let`)
Bind(v, K(_)) == K(v)

\* self.tokens[self.crnt].clone(): an index past the end panics
peek(p) ==
  IF p.st # "run" THEN [p |-> p, tok |-> EofSentinel]
  ELSE IF p.crnt >= Len(tokens)
       THEN [p |-> [p EXCEPT !.st = "panic"], tok |-> EofSentinel]
       ELSE [p |-> p, tok |-> tokens[p.crnt + 1]]

check(p, t) ==
  Bind(peek(p), LAMBDA r : [p |-> r.p, b |-> r.p.st = "run" /\ r.tok.token = t])

\* !self.check(Eof) && self.check(token)
is_token(p, t) ==
  Bind(check(p, "Eof"), LAMBDA r :
    IF r.p.st # "run" \/ r.b THEN [p |-> r.p, b |-> FALSE] ELSE check(r.p, t))

are_tokens(p, ts) ==
  [p |-> peek(p).p, b |-> \E i \in 1..Len(ts) : is_token(p, ts[i]).b]

\* tokens[crnt - back]; the cursor never exceeds Len(tokens) in a reachable
\* state, so the index is inside the Vec whenever back >= 1 and the second
\* branch is never taken
prev(p, back) ==
  IF p.crnt < back THEN EofSentinel
  ELSE IF p.crnt - back >= Len(tokens) THEN EofSentinel
  ELSE tokens[p.crnt - back + 1]

advance(p) ==
  Bind(is_token(p, "Eof"), LAMBDA r :
    Bind(IF r.p.st = "run" /\ ~r.b THEN [r.p EXCEPT !.crnt = @ + 1] ELSE r.p,
         LAMBDA q : [p |-> q, tok |-> prev(q, 1)]))

\* a retreat that leaves the cursor where it is: a fault used to test that a
\* claim depends on retreat
retreat_none(p) == [p |-> p, tok |-> prev(p, 1)]

\* if self.crnt > 0 { self.crnt -= 1 }; self.prev(1)
retreat(p) ==
  Bind(IF p.st = "run" /\ p.crnt > 0 THEN [p EXCEPT !.crnt = @ - 1] ELSE p,
       LAMBDA q : [p |-> q, tok |-> prev(q, 1)])

\* an id() that does not count: a fault used to test that a claim depends on
\* next_id
next_id_stuck(p) == [p |-> p, v |-> p.id]

\* self.id += 1; self.id - 1
next_id(p) ==
  [p |-> IF p.st = "run" THEN [p EXCEPT !.id = @ + 1] ELSE p, v |-> p.id]

\* a throw_error that reports nothing and lets the parse go on: a fault used
\* to test that a claim depends on throw_error
throw_error_resume(p, code, args) == peek(p).p

\* self.err.throw(code, self.peek().line, self.peek().pos, args); exit(1)
throw_error(p, code, args) ==
  Bind(peek(p), LAMBDA r :
    IF r.p.st # "run" THEN r.p
    ELSE [r.p EXCEPT !.st = "error",
                     !.err = [code |-> code, pos |-> r.tok.pos, args |-> args]])

\* throw_error(code, vec![self.peek().lexeme])
throw_lexeme(p, code) ==
  Bind(peek(p), LAMBDA r : throw_error(r.p, code, <<r.tok.lexeme>>))

if_token_advance(p, t) ==
  Bind(is_token(p, t), LAMBDA r :
    IF r.b THEN [p |-> advance(r.p).p, b |-> TRUE] ELSE [p |-> r.p, b |-> FALSE])

consume(p, t) ==
  Bind(if_token_advance(p, t), LAMBDA r :
    IF r.b THEN [p |-> r.p, tok |-> prev(r.p, 1)]
    ELSE [p |-> throw_error(r.p, "E0x204", <<to_string(t)>>), tok |-> EofSentinel])

if_token_consume(p, t) ==
  Bind(is_token(p, t), LAMBDA r :
    IF r.b THEN [p |-> consume(r.p, t).p, b |-> TRUE] ELSE [p |-> r.p, b |-> FALSE])

RECURSIVE consume_some_from(_, _, _)
consume_some_from(p, ts, i) ==
  IF i > Len(ts)
  THEN [p |-> throw_error(p, "E0x204", <<prev(p, 1).lexeme>>), tok |-> EofSentinel]
  ELSE Bind(if_token_advance(p, ts[i]), LAMBDA r :
         IF r.b THEN [p |-> r.p, tok |-> prev(r.p, 1)]
         ELSE consume_some_from(r.p, ts, i + 1))

consume_some(p, ts) == consume_some_from(p, ts, 1)


is_literal(p) ==
  are_tokens(p, <<"NumberLit", "StringLit", "CharLit", "TrueLit", "FalseLit", "NullLit">>)

\* the first character of the lexeme is an uppercase letter: of the lexemes
\* parsed here, those of the identifiers A, B and K
is_uppercase_ident(p) ==
  Bind(peek(p), LAMBDA r :
    [p |-> r.p, b |-> r.p.st = "run" /\ r.tok.lexeme \in {"A", "B", "K"}])

consume_uppercase_ident(p) ==
  Bind(peek(p), LAMBDA r :
    Bind(is_uppercase_ident(r.p), LAMBDA u :
      IF u.b THEN [p |-> consume(u.p, "Ident").p, tok |-> r.tok]
      ELSE [p |-> throw_error(u.p, "E0x204", <<"uppercase Ident">>),
            tok |-> EofSentinel]))

create_null_token(p, line) ==
  Bind(peek(p), LAMBDA r :
    [p |-> r.p, tok |-> Token("NullIdent", "null", None, line, r.tok.pos)])

(***************************************************************************)
(* The syntax tree.  Expression (crate::interpreter::expr) and Statement   *)
(* (crate::ast) are records tagged by `k` and `s` with the fields the      *)
(* parser gives them where it builds them.                                 *)
(***************************************************************************)
NoVal == [k |-> "NoVal"]
NoArg == [k |-> "NoArg"]

LitNull == [k |-> "Null"]
LitAny == [k |-> "Any"]
LitBoolean(b) == [k |-> "Boolean", value |-> b]

ExprValue(i, value) == [k |-> "Value", id |-> i, value |-> value]
ExprVar(i, name) == [k |-> "Var", id |-> i, name |-> name]
ExprAssign(i, name, value, kind) ==
  [k |-> "Assign", id |-> i, name |-> name, value |-> value, kind |-> kind]
ExprBinary(i, left, operator, right) ==
  [k |-> "Binary", id |-> i, left |-> left, operator |-> operator, right |-> right]
ExprUnary(i, left, operator) ==
  [k |-> "Unary", id |-> i, left |-> left, operator |-> operator]
ExprCall(i, name, args, call_type) ==
  [k |-> "Call", id |-> i, name |-> name, args |-> args, call_type |-> call_type]
ExprMethod(i, name, left, args) ==
  [k |-> "Method", id |-> i, name |-> name, left |-> left, args |-> args]
ExprArray(i, items) == [k |-> "Array", id |-> i, items |-> items]
ExprGrouping(i, expression) == [k |-> "Grouping", id |-> i, expression |-> expression]
ExprFunc(i, name, value_type, body, params, is_async, is_pub) ==
  [k |-> "Func", id |-> i, name |-> name, value_type |-> value_type, body |-> body,
   params |-> params, is_async |-> is_async, is_pub |-> is_pub]
ExprAwait(i, expr) == [k |-> "Await", id |-> i, expr |-> expr]

\* FuncBody::Statements(Vec<Statement>) and FuncBody::Expression(Box<Expression>)
BodyStatements(stmts) == [b |-> "Statements", stmts |-> stmts]
BodyExpression(e) == [b |-> "Expression", expr |-> e]

StmtVar(names, value_type, value, is_mut, is_pub, pub_names, is_func) ==
  [s |-> "Var", names |-> names, value_type |-> value_type, value |-> value,
   is_mut |-> is_mut, is_pub |-> is_pub, pub_names |-> pub_names, is_func |-> is_func]
StmtFunc(name, value_type, body, params, is_async, is_pub) ==
  [s |-> "Func", name |-> name, value_type |-> value_type, body |-> body,
   params |-> params, is_async |-> is_async, is_pub |-> is_pub]
StmtIf(cond, body, else_if_branches, else_branch) ==
  [s |-> "If", cond |-> cond, body |-> body, else_if_branches |-> else_if_branches,
   else_branch |-> else_branch]
StmtReturn(e) == [s |-> "Return", expr |-> e]
StmtWhile(cond, body) == [s |-> "While", cond |-> cond, body |-> body]
StmtLoop(iter, body) == [s |-> "Loop", iter |-> iter, body |-> body]
StmtBreak == [s |-> "Break"]
StmtMatch(cond, cases, def_case) ==
  [s |-> "Match", cond |-> cond, cases |-> cases, def_case |-> def_case]
StmtMod(src) == [s |-> "Mod", src |-> src]
StmtUse(src, names, all) == [s |-> "Use", src |-> src, names |-> names, all |-> all]
StmtEnum(name, enums, is_pub) ==
  [s |-> "Enum", name |-> name, enums |-> enums, is_pub |-> is_pub]
StmtBlock(stmts) == [s |-> "Block", stmts |-> stmts]
StmtExpression(e) == [s |-> "Expression", expr |-> e]

(***************************************************************************)
(* Frames and the outcomes of a step.  A step of a method ends in one of:  *)
(* Goto (the method goes on at another place), Call (it calls a recursive  *)
(* method and will go on at pc when that returns, the value in `ret`),     *)
(* Return (it returns v).  A step whose helpers raised a diagnostic or     *)
(* panicked carries that in p.st, and ends the run whatever its outcome.   *)
(***************************************************************************)
\* the local variables of a method at entry
Locals(fn, arg) ==
  CASE fn = "parse" -> [stmts |-> <<>>]
    [] fn = "var_stmt" ->
         [names |-> <<>>, pub_names |-> <<>>, is_mut |-> FALSE, is_pub |-> FALSE,
          is_null |-> FALSE, null_var |-> NoVal, value_type |-> NoVal, is_func |-> FALSE]
    [] fn = "func_stmt" ->
         [params |-> <<>>, is_async |-> FALSE, is_pub |-> FALSE, name |-> NoVal,
          param_name |-> NoVal, value_type |-> NoVal]
    [] fn = "if_stmt" ->
         [cond |-> NoVal, body |-> <<>>, else_if_branches |-> <<>>, elif_preds |-> NoVal]
    [] fn = "while_stmt" -> [cond |-> NoVal]
    [] fn = "loop_stmt" -> [iter |-> None]
    [] fn = "match_stmt" ->
         [cond |-> NoVal, cases |-> <<>>, expr |-> NoVal, def_case |-> BodyStatements(<<>>)]
    [] fn = "use_stmt" -> [names |-> <<>>]
    [] fn = "enum_stmt" -> [is_pub |-> FALSE, name |-> NoVal, enums |-> <<>>]
    [] fn = "block_stmt" -> [stmts |-> <<>>]
    [] fn = "assign" -> [expr |-> arg.expr, kind |-> arg.kind]
    [] fn = "binary" -> [expr |-> NoVal, operator |-> NoVal]
    [] fn = "unary" -> [operator |-> NoVal]
    [] fn = "call" -> [expr |-> NoVal]
    [] fn \in {"array_call", "struct_call", "enum_call"} -> [name |-> NoVal]
    [] fn = "func_call" -> [name |-> NoVal, args |-> <<>>]
    [] fn = "method_body" -> [expr |-> arg, name |-> NoVal, args |-> <<>>]
    [] fn = "arr_expr" -> [items |-> <<>>]
    [] fn = "func_expr" ->
         [value_type |-> NoVal, params |-> <<>>, is_async |-> FALSE, is_pub |-> FALSE,
          name |-> NoVal, param_name |-> NoVal]
    [] fn = "parse_func_type" -> [params |-> <<>>]
    [] fn = "parse_array_type" -> [statics |-> <<>>]
    [] OTHER -> [none |-> TRUE]

Frame(fn, at, arg) == [fn |-> fn, pc |-> 0, at |-> at, l |-> Locals(fn, arg)]

Goto(p, f, pc, l) == [op |-> "goto", p |-> p, f |-> [f EXCEPT !.pc = pc, !.l = l]]
Call(p, f, pc, l, fn, arg) ==
  [op |-> "call", p |-> p, f |-> [f EXCEPT !.pc = pc, !.l = l], fn |-> fn, arg |-> arg]
Return(p, v) == [op |-> "ret", p |-> p, v |-> v]
\* a step that ended in throw_error (p.st is "error" or "panic")
Raise(p) == [op |-> "ret", p |-> p, v |-> NoVal]

P == [crnt |-> crnt, id |-> id, st |-> "run", err |-> NoErr]
Top == stack[Len(stack)]
Running(fn) == status = "run" /\ stack # <<>> /\ Top.fn = fn

\* the state after a step with outcome o
Apply(o) ==
  /\ tokens' = tokens
  /\ trace' = Append(trace, <<o.p.crnt, o.p.id>>)
  /\ UNCHANGED <<run, first>>
  /\ crnt' = o.p.crnt
  /\ id' = o.p.id
  /\ err' = o.p.err
  /\ IF o.p.st # "run"
     THEN /\ status' = o.p.st
          /\ UNCHANGED <<stack, ret, result>>
     ELSE CASE o.op = "goto" ->
                 /\ stack' = [stack EXCEPT ![Len(stack)] = o.f]
                 /\ UNCHANGED <<ret, status, result>>
            [] o.op = "call" ->
                 IF Len(stack) >= MaxDepth
                 THEN /\ status' = "overflow"
                      /\ UNCHANGED <<stack, ret, result>>
                 ELSE /\ stack' = Append([stack EXCEPT ![Len(stack)] = o.f],
                                         Frame(o.fn, o.p.crnt, o.arg))
                      /\ UNCHANGED <<ret, status, result>>
            [] o.op = "ret" ->
                 /\ stack' = SubSeq(stack, 1, Len(stack) - 1)
                 /\ ret' = o.v
                 /\ IF Len(stack) = 1
                    THEN status' = "complete" /\ result' = o.v
                    ELSE UNCHANGED <<status, result>>


(***************************************************************************)
(* Expression grammar.  X_step(f, p, r) is the step of method X from the   *)
(* place f.pc of its frame f, with the cursor and id counter p and the     *)
(* value r returned by the call it was waiting for.                        *)
(***************************************************************************)
\* the assignment operators expr looks for, in its order, with their AssignKind
AssignOperators ==
  << <<"Assign", "Normal">>, <<"PlusEq", "Plus">>, <<"MinEq", "Minus">>,
     <<"MultEq", "Mult">>, <<"DivEq", "Div">> >>

BinaryOperators ==
  <<"Plus", "Minus", "Mult", "Divide", "Percent", "AndAnd", "Or", "Eq", "NotEq",
    "Greater", "GreaterOrEq", "Less", "LessOrEq", "Square", "And">>

UnaryOperators == <<"Not", "NotNot", "Queston", "Decr", "Increment", "Minus">>

\* `if !self.if_token_consume(Comma) && !self.is_token(close) { throw_error }`
separator(p, close) ==
  Bind(if_token_consume(p, "Comma"), LAMBDA c :
    IF c.b THEN c.p
    ELSE Bind(is_token(c.p, close), LAMBDA n :
           IF n.b THEN n.p ELSE throw_lexeme(n.p, "E0x201")))

\* expr's chain of `else if self.if_token_consume(..)`, from the i-th on
RECURSIVE expr_assign(_, _, _, _)
expr_assign(f, p, e, i) ==
  IF i > Len(AssignOperators) THEN Return(p, e)
  ELSE Bind(if_token_consume(p, AssignOperators[i][1]), LAMBDA a :
         IF a.b
         THEN Call(a.p, f, 2, f.l, "assign", [expr |-> e, kind |-> AssignOperators[i][2]])
         ELSE expr_assign(f, a.p, e, i + 1))

expr_step(f, p, r) ==
  CASE f.pc = 0 -> Call(p, f, 1, f.l, "binary", NoArg)
    [] f.pc = 1 -> expr_assign(f, p, r, 1)
    [] f.pc = 2 -> Return(p, r)

\* an assign that takes any left side as its target: a fault used to test
\* that a claim depends on assign's test of the target
assign_step_any(f, p, r) ==
  CASE f.pc = 0 -> Call(p, f, 1, f.l, "expr", NoArg)
    [] f.pc = 1 ->
         Bind(next_id(p), LAMBDA i :
           Return(i.p, ExprAssign(i.v, IF f.l.expr.k = "Var" THEN f.l.expr.name
                                       ELSE EofSentinel, r, f.l.kind)))

assign_step(f, p, r) ==
  CASE f.pc = 0 -> Call(p, f, 1, f.l, "expr", NoArg)
    [] f.pc = 1 ->
         IF f.l.expr.k = "Var"
         THEN Bind(next_id(p), LAMBDA i :
                Return(i.p, ExprAssign(i.v, f.l.expr.name, r, f.l.kind)))
         ELSE Raise(throw_error(p, "E0x201", <<"Invalid assignment target">>))

\* a binary whose right operand is a whole binary expression, which groups
\* to the right: a fault used to test that a claim depends on binary's loop
binary_loop_right(f, p, e) ==
  Bind(are_tokens(p, BinaryOperators), LAMBDA a :
    IF a.b
    THEN Bind(advance(a.p), LAMBDA d :
           Call(d.p, f, 2, [f.l EXCEPT !.expr = e, !.operator = prev(d.p, 1)],
                "binary", NoArg))
    ELSE Return(a.p, e))

\* the head of binary's while loop, with the expression built so far
binary_loop(f, p, e) ==
  Bind(are_tokens(p, BinaryOperators), LAMBDA a :
    IF a.b
    THEN Bind(advance(a.p), LAMBDA d :
           Call(d.p, f, 2, [f.l EXCEPT !.expr = e, !.operator = prev(d.p, 1)],
                "unary", NoArg))
    ELSE Return(a.p, e))

binary_step(f, p, r) ==
  CASE f.pc = 0 -> Call(p, f, 1, f.l, "unary", NoArg)
    [] f.pc = 1 -> binary_loop(f, p, r)
    [] f.pc = 2 ->
         Bind(next_id(p), LAMBDA i :
           binary_loop(f, i.p, ExprBinary(i.v, f.l.expr, f.l.operator, r)))

unary_step(f, p, r) ==
  CASE f.pc = 0 ->
         Bind(are_tokens(p, UnaryOperators), LAMBDA a :
           IF a.b
           THEN Bind(advance(a.p), LAMBDA d :
                  Call(d.p, f, 1, [f.l EXCEPT !.operator = prev(d.p, 1)], "unary", NoArg))
           ELSE Call(a.p, f, 2, f.l, "call", NoArg))
    [] f.pc = 1 ->
         Bind(next_id(p), LAMBDA i : Return(i.p, ExprUnary(i.v, r, f.l.operator)))
    [] f.pc = 2 -> Return(p, r)

\* the suffixes call's loop looks for after `.`, in its order, and the method
\* each one is parsed by
CallSuffixes ==
  << <<"DblColon", "enum_call">>, <<"LeftParen", "func_call">>,
     <<"LeftBracket", "array_call">>, <<"Ident", "call">> >>

\* call's chain of `else if self.if_token_consume(..)` after `.`, from the i-th on
RECURSIVE call_suffix(_, _, _, _)
call_suffix(f, p, l, i) ==
  IF i > Len(CallSuffixes) THEN Return(p, l.expr)
  ELSE Bind(if_token_consume(p, CallSuffixes[i][1]), LAMBDA d :
         IF d.b THEN Call(d.p, f, 2, l, CallSuffixes[i][2], NoArg)
         ELSE call_suffix(f, d.p, l, i + 1))

\* the body of call's loop, with the expression parsed so far
call_loop(f, p, e) ==
  Bind(if_token_consume(p, "Dot"), LAMBDA d :
    IF d.b
    THEN IF e.k = "Method"
         THEN Call(d.p, f, 2, [f.l EXCEPT !.expr = e], "method_body", e)
         ELSE Call(d.p, f, 2, [f.l EXCEPT !.expr = e], "struct_call", NoArg)
    ELSE call_suffix(f, d.p, [f.l EXCEPT !.expr = e], 1))

call_step(f, p, r) ==
  CASE f.pc = 0 ->
         Bind(is_token(p, "LeftBracket"), LAMBDA b :
           IF b.b /\ prev(b.p, 1).token = "Ident"
           THEN Call(advance(b.p).p, f, 1, f.l, "array_call", NoArg)
           ELSE Call(b.p, f, 2, f.l, "method", NoArg))
    [] f.pc = 1 -> Return(consume(p, "RightBracket").p, r)
    [] f.pc = 2 -> call_loop(f, p, r)

\* Expression::Call { id: self.id(), name: Box::new(Expression::Var { id:
\* self.id(), name }), args, call_type }
make_call(p, name, args, call_type) ==
  Bind(next_id(p), LAMBDA i1 :
    Bind(next_id(i1.p), LAMBDA i2 :
      Return(i2.p, ExprCall(i1.v, ExprVar(i2.v, name), args, call_type))))

array_call_step(f, p, r) ==
  CASE f.pc = 0 -> Call(p, f, 1, [f.l EXCEPT !.name = prev(p, 2)], "expr", NoArg)
    [] f.pc = 1 -> make_call(p, f.l.name, <<r>>, "Array")

struct_call_step(f, p, r) ==
  CASE f.pc = 0 -> Call(p, f, 1, [f.l EXCEPT !.name = prev(p, 2)], "expr", NoArg)
    [] f.pc = 1 -> make_call(p, f.l.name, <<r>>, "Struct")

enum_call_step(f, p, r) ==
  CASE f.pc = 0 -> Call(p, f, 1, [f.l EXCEPT !.name = prev(p, 2)], "expr", NoArg)
    [] f.pc = 1 -> make_call(p, f.l.name, <<r>>, "Enum")

\* after func_call's loop
func_call_end(p, l) == make_call(consume(p, "RightParen").p, l.name, l.args, "Func")

\* the head of func_call's while loop
func_call_loop(f, p, l) ==
  Bind(is_token(p, "RightParen"), LAMBDA t :
    IF ~t.b THEN Call(t.p, f, 1, l, "expr", NoArg) ELSE func_call_end(t.p, l))

func_call_step(f, p, r) ==
  CASE f.pc = 0 -> func_call_loop(f, p, [f.l EXCEPT !.name = prev(p, 2)])
    [] f.pc = 1 ->
         Bind(is_token(p, "RightParen"), LAMBDA t :
           IF t.b THEN func_call_end(t.p, [f.l EXCEPT !.args = Append(@, r)])
           ELSE Goto(separator(t.p, "RightParen"), f, 2,
                     [f.l EXCEPT !.args = Append(@, r)]))
    [] f.pc = 2 -> func_call_loop(f, p, f.l)

method_step(f, p, r) ==
  CASE f.pc = 0 -> Call(p, f, 1, f.l, "primary", NoArg)
    [] f.pc = 1 ->
         Bind(if_token_consume(p, "Dot"), LAMBDA d :
           IF d.b THEN Call(d.p, f, 2, f.l, "method_body", r) ELSE Return(d.p, r))
    [] f.pc = 2 -> Return(p, r)

method_body_step(f, p, r) ==
  CASE f.pc = 0 ->
         Bind(consume(p, "Ident"), LAMBDA n :
           Goto(consume(n.p, "LeftParen").p, f, 2, [f.l EXCEPT !.name = n.tok]))
    [] f.pc = 1 ->
         Goto(if_token_consume(p, "Comma").p, f, 2, [f.l EXCEPT !.args = Append(@, r)])
    [] f.pc = 2 ->
         Bind(if_token_consume(p, "RightParen"), LAMBDA t :
           IF t.b
           THEN Bind(next_id(t.p), LAMBDA i :
                  Return(i.p, ExprMethod(i.v, f.l.name, f.l.expr, f.l.args)))
           ELSE Call(t.p, f, 1, f.l, "expr", NoArg))

\* the payload of a literal token that must carry one of the kind
payload(p, token, kind) ==
  IF token.value.some /\ token.value.v.k = kind
  THEN [p |-> p, v |-> [k |-> kind, value |-> token.value.v.value]]
  ELSE [p |-> throw_lexeme(p, "E0x202"), v |-> NoVal]

to_value_type(p, token) ==
  CASE token.token = "NumberLit" -> payload(p, token, "Number")
    [] token.token = "StringLit" -> payload(p, token, "String")
    [] token.token = "CharLit" -> payload(p, token, "Char")
    [] token.token = "TrueLit" -> [p |-> p, v |-> LitBoolean(TRUE)]
    [] token.token = "FalseLit" -> [p |-> p, v |-> LitBoolean(FALSE)]
    [] token.token = "NullLit" -> [p |-> p, v |-> LitNull]
    [] OTHER -> [p |-> p, v |-> LitAny]

\* primary's `_` arm: a literal, or the diagnostic
primary_literal(p, token) ==
  Bind(is_literal(p), LAMBDA lit :
    IF lit.b
    THEN Bind(next_id(advance(lit.p).p), LAMBDA i :
           Bind(to_value_type(i.p, token), LAMBDA v :
             Return(v.p, ExprValue(i.v, v.v))))
    ELSE Raise(throw_lexeme(lit.p, "E0x201")))

primary_step(f, p, r) ==
  CASE f.pc = 0 ->
         Bind(peek(p), LAMBDA pk :
           CASE pk.tok.token = "Ident" ->
                  Bind(next_id(advance(pk.p).p), LAMBDA i :
                    Return(i.p, ExprVar(i.v, pk.tok)))
             [] pk.tok.token = "LeftBracket" ->
                  Call(advance(pk.p).p, f, 1, f.l, "arr_expr", NoArg)
             [] pk.tok.token = "LeftParen" ->
                  IF prev(pk.p, 1).token = "Ident"
                  THEN Call(advance(pk.p).p, f, 1, f.l, "func_call", NoArg)
                  ELSE Call(pk.p, f, 1, f.l, "group_expr", NoArg)
             [] pk.tok.token = "Pipe" -> Call(pk.p, f, 1, f.l, "func_expr", NoArg)
             [] pk.tok.token = "Await" -> Call(pk.p, f, 1, f.l, "await_expr", NoArg)
             [] OTHER -> primary_literal(pk.p, pk.tok))
    [] f.pc = 1 -> Return(p, r)

arr_expr_step(f, p, r) ==
  CASE f.pc = 0 ->
         Bind(if_token_consume(p, "RightBracket"), LAMBDA e :
           IF e.b
           THEN Bind(next_id(e.p), LAMBDA i : Return(i.p, ExprArray(i.v, f.l.items)))
           ELSE Call(e.p, f, 1, f.l, "expr", NoArg))
    [] f.pc = 1 ->
         Goto(separator(p, "RightBracket"), f, 0, [f.l EXCEPT !.items = Append(@, r)])

group_expr_step(f, p, r) ==
  CASE f.pc = 0 -> Call(advance(p).p, f, 1, f.l, "expr", NoArg)
    [] f.pc = 1 ->
         Bind(next_id(consume(p, "RightParen").p), LAMBDA i :
           Return(i.p, ExprGrouping(i.v, r)))

\* after the parameter list of func_expr
func_expr_body(f, p, l) ==
  Bind(if_token_consume(p, "Colon"), LAMBDA c :
    IF c.b THEN Call(c.p, f, 3, l, "expr", NoArg)
    ELSE Call(consume(c.p, "LeftBrace").p, f, 4, l, "block_stmts", NoArg))

\* one turn of the loop over `name: type` parameters, of func_expr (closed by
\* `|`) and of func_stmt (closed by `)`), after the test for the closing token
parameter(f, p, l, close, pc_type, pc_loop) ==
  Bind(is_token(p, "Ident"), LAMBDA i :
    IF i.b
    THEN Bind(consume(i.p, "Ident"), LAMBDA n :
           Call(consume(n.p, "Colon").p, f, pc_type, [l EXCEPT !.param_name = n.tok],
                "consume_type", NoArg))
    ELSE Bind(if_token_consume(i.p, "Comma"), LAMBDA cm :
           IF cm.b THEN Goto(cm.p, f, pc_loop, l)
           ELSE Bind(is_token(cm.p, close), LAMBDA np :
                  IF ~np.b THEN Raise(throw_lexeme(np.p, "E0x201"))
                  ELSE Goto(np.p, f, pc_loop, l))))

\* the head of func_expr's while loop over the parameters
func_expr_params(f, p, l) ==
  Bind(if_token_consume(p, "Pipe"), LAMBDA e :
    IF e.b THEN func_expr_body(f, e.p, l)
    ELSE parameter(f, e.p, l, "Pipe", 1, 2))

\* `add` in func_expr
func_expr_add(params) ==
  IF Len(params) > 1 THEN Len(params) * 2 - 1 ELSE Len(params)

func_expr_step(f, p, r) ==
  CASE f.pc = 0 ->
         Bind(advance(p), LAMBDA d :
           Bind([f.l EXCEPT
                   !.value_type = prev(d.p, 3),
                   !.is_pub = (prev(d.p, 9 + func_expr_add(f.l.params)).token = "Pub"),
                   !.name = prev(d.p, 8 + func_expr_add(f.l.params))],
                LAMBDA l :
             Bind(if_token_consume(consume(d.p, "Pipe").p, "Underscore"), LAMBDA u :
               IF u.b THEN func_expr_body(f, consume(u.p, "Pipe").p, l)
               ELSE Goto(u.p, f, 2, l))))
    [] f.pc = 1 ->
         Goto(p, f, 2, [f.l EXCEPT !.params = Append(@, <<f.l.param_name, r>>)])
    [] f.pc = 2 -> func_expr_params(f, p, f.l)
    [] f.pc = 3 ->
         Bind(next_id(consume(p, "Semi").p), LAMBDA i :
           Return(i.p, ExprFunc(i.v, f.l.name, f.l.value_type, BodyExpression(r),
                                f.l.params, f.l.is_async, f.l.is_pub)))
    [] f.pc = 4 ->
         Bind(next_id(p), LAMBDA i :
           Return(i.p, ExprFunc(i.v, f.l.name, f.l.value_type, BodyStatements(r),
                                f.l.params, f.l.is_async, f.l.is_pub)))

await_expr_step(f, p, r) ==
  CASE f.pc = 0 -> Call(p, f, 1, f.l, "expr", NoArg)
    [] f.pc = 1 ->
         Bind(next_id(p), LAMBDA i : Return(i.p, ExprAwait(i.v, r)))

(***************************************************************************)
(* Type grammar.  A parsed type is a Token whose value slot holds          *)
(* LiteralKind::Type(TypeKind).                                            *)
(***************************************************************************)
KindType(t) == [k |-> "Type", t |-> t]
TypeVar(name) == [t |-> "Var", name |-> name]
TypeValue(kind) == [t |-> "Value", kind |-> kind]
TypeArray(kind, statics) == [t |-> "Array", kind |-> kind, statics |-> statics]
TypeFunc(params, rt) == [t |-> "Func", params |-> params, ret |-> rt]

BuiltinTypes ==
  <<"AnyIdent", "BoolIdent", "CharIdent", "NullIdent", "VoidIdent", "ArrayIdent",
    "NumberIdent", "StringIdent">>

LiteralTypeTokens ==
  {"StringLit", "NumberLit", "CharLit", "NullLit", "TrueLit", "ArrayLit", "FalseLit"}

\* the Token a type parser builds around the token it consumed
type_token(c, token) ==
  [p |-> c.p,
   tok |-> Token(token, c.tok.lexeme, Some(KindType(TypeVar(c.tok))),
                 c.tok.line, c.tok.pos)]

parse_builtin_type(p) ==
  Bind(consume_some(p, BuiltinTypes), LAMBDA c : type_token(c, c.tok.token))

parse_ident_type(p) ==
  Bind(consume(p, "Ident"), LAMBDA c : type_token(c, "Ident"))

parse_literal_type(p) ==
  Bind(peek(p), LAMBDA pk :
    IF pk.tok.token \in LiteralTypeTokens
    THEN Bind(peek(advance(pk.p).p), LAMBDA nx :
           [p |-> nx.p,
            tok |-> Token(pk.tok.token, nx.tok.lexeme,
                          Some(KindType(TypeValue(IF pk.tok.value.some
                                                  THEN pk.tok.value.v ELSE [k |-> "Null"]))),
                          pk.tok.line, pk.tok.pos)])
    ELSE pk)

consume_type_step(f, p, r) ==
  CASE f.pc = 0 ->
         Bind(peek(p), LAMBDA pk :
           CASE pk.tok.token = "Less" -> Call(pk.p, f, 1, f.l, "parse_array_type", NoArg)
             [] pk.tok.token = "Pipe" -> Call(pk.p, f, 1, f.l, "parse_func_type", NoArg)
             [] pk.tok.token \in LiteralTypeTokens ->
                  Bind(parse_literal_type(pk.p), LAMBDA t : Return(t.p, t.tok))
             [] pk.tok.token = "Ident" ->
                  Bind(parse_ident_type(pk.p), LAMBDA t : Return(t.p, t.tok))
             [] pk.tok.token \in {BuiltinTypes[i] : i \in 1..Len(BuiltinTypes)} ->
                  Bind(parse_builtin_type(pk.p), LAMBDA t : Return(t.p, t.tok))
             [] OTHER ->
                  Return(pk.p, Token(pk.tok.token, pk.tok.lexeme, None,
                                     pk.tok.line, pk.tok.pos)))
    [] f.pc = 1 -> Return(p, r)

parse_func_type_step(f, p, r) ==
  CASE f.pc = 0 -> Goto(consume(p, "Pipe").p, f, 1, f.l)
    [] f.pc = 1 ->
         Bind(if_token_consume(p, "Pipe"), LAMBDA e :
           IF e.b THEN Call(e.p, f, 3, f.l, "consume_type", NoArg)
           ELSE Call(e.p, f, 2, f.l, "consume_type", NoArg))
    [] f.pc = 2 ->
         Goto(separator(p, "Pipe"), f, 1, [f.l EXCEPT !.params = Append(@, TypeVar(r))])
    [] f.pc = 3 ->
         Bind(peek(p), LAMBDA pk :
           Return(pk.p, Token("FuncIdent", "func_type",
                              Some(KindType(TypeFunc(f.l.params, TypeVar(r)))),
                              pk.tok.line, pk.tok.pos)))

\* the Token parse_array_type builds after the element type typ
array_token(p, typ, kind, statics) ==
  Bind(peek(consume(p, "Greater").p), LAMBDA pk :
    Return(pk.p, Token("ArrayIdent", typ.lexeme,
                       Some(KindType(TypeArray(kind, statics))),
                       pk.tok.line, pk.tok.pos)))

parse_array_type_step(f, p, r) ==
  CASE f.pc = 0 ->
         Bind(if_token_consume(consume(p, "Less").p, "LeftParen"), LAMBDA lp :
           IF lp.b THEN Goto(lp.p, f, 1, f.l)
           ELSE Call(lp.p, f, 4, f.l, "consume_type", NoArg))
    [] f.pc = 1 ->
         Bind(if_token_consume(p, "RightParen"), LAMBDA e :
           IF e.b THEN Call(e.p, f, 3, f.l, "consume_type", NoArg)
           ELSE Call(e.p, f, 2, f.l, "consume_type", NoArg))
    [] f.pc = 2 ->
         Goto(separator(p, "RightParen"), f, 1,
              [f.l EXCEPT !.statics = Append(@, TypeVar(r))])
    [] f.pc = 3 -> array_token(p, r, None, Some(f.l.statics))
    [] f.pc = 4 -> array_token(p, r, Some(TypeVar(r)), None)


(***************************************************************************)
(* Statement grammar.                                                      *)
(***************************************************************************)
parse_step(f, p, r) ==
  CASE f.pc = 0 ->
         Bind(check(p, "Eof"), LAMBDA c :
           IF c.b THEN Return(c.p, f.l.stmts) ELSE Call(c.p, f, 1, f.l, "stmt", NoArg))
    [] f.pc = 1 -> Goto(p, f, 0, [f.l EXCEPT !.stmts = Append(@, r)])

\* the method stmt's match sends a statement to
stmt_dispatch(t) ==
  CASE t = "Let" -> "var_stmt"
    [] t = "Func" -> "func_stmt"
    [] t = "If" -> "if_stmt"
    [] t = "Return" -> "return_stmt"
    [] t = "While" -> "while_stmt"
    [] t = "Loop" -> "loop_stmt"
    [] t = "Break" -> "break_stmt"
    [] t = "Match" -> "match_stmt"
    [] t = "Mod" -> "mod_stmt"
    [] t = "Use" -> "use_stmt"
    [] t = "Enum" -> "enum_stmt"
    [] t = "LeftBrace" -> "block_stmt"
    [] OTHER -> "expr_stmt"

stmt_step(f, p, r) ==
  CASE f.pc = 0 ->
         Bind(advance(p), LAMBDA a :
           Call(a.p, f, 1, f.l, stmt_dispatch(prev(a.p, 1).token), NoArg))
    [] f.pc = 1 -> Return(p, r)

\* var_stmt from the construction of null_var on, with pub_names defaulted
var_stmt_null(f, p, l) ==
  Bind(create_null_token(p, l.names[1].line), LAMBDA nt :
    Bind(next_id(nt.p), LAMBDA i :
      Bind(StmtVar(l.names, nt.tok, Some(ExprValue(i.v, LitNull)),
                   l.is_mut, l.is_pub, l.pub_names, FALSE),
           LAMBDA null_var :
        IF l.is_null THEN Return(advance(i.p).p, null_var)
        ELSE Call(consume(i.p, "Colon").p, f, 3, [l EXCEPT !.null_var = null_var],
                  "consume_type", NoArg))))

\* a var_stmt that exports the bound names whatever list follows `pub`: a
\* fault used to test that a claim depends on var_stmt_tail
var_stmt_tail_names(f, p, l) == var_stmt_null(f, p, [l EXCEPT !.pub_names = l.names])

\* var_stmt from `if pub_names.is_empty()` on
var_stmt_tail(f, p, l) ==
  var_stmt_null(f, p, [l EXCEPT !.pub_names = IF l.pub_names = <<>> THEN l.names ELSE @])

\* the tests that end var_stmt's loop over the names, after a name was pushed
var_stmt_names(f, p, l) ==
  Bind(is_token(p, "Semi"), LAMBDA s :
    IF s.b THEN var_stmt_tail(f, s.p, [l EXCEPT !.is_null = TRUE])
    ELSE Bind(is_token(s.p, "Comma"), LAMBDA cm :
           IF ~cm.b THEN var_stmt_tail(f, cm.p, l)
           ELSE Bind(is_token(cm.p, "Colon"), LAMBDA co :
                  IF co.b THEN var_stmt_tail(f, co.p, l)
                  ELSE Goto(advance(co.p).p, f, 2, l))))

var_stmt_step(f, p, r) ==
  CASE f.pc = 0 ->
         Bind(if_token_consume(p, "Mut"), LAMBDA m :
           IF m.b THEN Goto(m.p, f, 2, [f.l EXCEPT !.is_mut = TRUE])
           ELSE Bind(if_token_consume(m.p, "Pub"), LAMBDA pb :
                  IF ~pb.b THEN Goto(pb.p, f, 2, f.l)
                  ELSE Bind(if_token_consume(pb.p, "LeftParen"), LAMBDA lp :
                         Goto(lp.p, f, IF lp.b THEN 1 ELSE 2,
                              [f.l EXCEPT !.is_pub = TRUE]))))
    [] f.pc = 1 ->
         Bind(consume(p, "Ident"), LAMBDA n :
           Bind(if_token_consume(n.p, "Comma"), LAMBDA c :
             IF ~c.b
             THEN Goto(consume(c.p, "RightParen").p, f, 2,
                       [f.l EXCEPT !.pub_names = Append(@, n.tok)])
             ELSE Bind(is_token(c.p, "RightParen"), LAMBDA rp :
                    IF rp.b
                    THEN Goto(consume(rp.p, "RightParen").p, f, 2,
                              [f.l EXCEPT !.pub_names = Append(@, n.tok)])
                    ELSE Goto(rp.p, f, 1, [f.l EXCEPT !.pub_names = Append(@, n.tok)]))))
    [] f.pc = 2 ->
         Bind(consume(p, "Ident"), LAMBDA n :
           var_stmt_names(f, n.p, [f.l EXCEPT !.names = Append(@, n.tok)]))
    [] f.pc = 3 ->
         IF r.token = "NullIdent" THEN Return(p, f.l.null_var)
         ELSE Bind(is_token(consume(p, "Assign").p, "Pipe"), LAMBDA pi :
                Call(pi.p, f, 4, [f.l EXCEPT !.value_type = r, !.is_func = pi.b],
                     "expr", NoArg))
    [] f.pc = 4 ->
         Return(consume(p, "Semi").p,
                StmtVar(f.l.names, f.l.value_type, Some(r), f.l.is_mut,
                        f.l.is_pub, f.l.pub_names, f.l.is_func))

func_stmt_step(f, p, r) ==
  CASE f.pc = 0 ->
         Bind(if_token_consume(p, "Pub"), LAMBDA pb :
           Bind(IF pb.b THEN if_token_consume(pb.p, "Async") ELSE [p |-> pb.p, b |-> FALSE],
                LAMBDA as1 :
             Bind(if_token_consume(as1.p, "Async"), LAMBDA as2 :
               Bind(IF as2.b THEN if_token_consume(as2.p, "Pub") ELSE [p |-> as2.p, b |-> FALSE],
                    LAMBDA pb2 :
                 Bind(consume(pb2.p, "Ident"), LAMBDA n :
                   Goto(consume(n.p, "LeftParen").p, f, 1,
                        [f.l EXCEPT !.is_pub = pb.b \/ pb2.b,
                                    !.is_async = as1.b \/ as2.b,
                                    !.name = n.tok]))))))
    [] f.pc = 1 ->
         Bind(if_token_consume(p, "RightParen"), LAMBDA e :
           IF e.b THEN Call(consume(e.p, "Arrow").p, f, 3, f.l, "consume_type", NoArg)
           ELSE parameter(f, e.p, f.l, "RightParen", 2, 1))
    [] f.pc = 2 ->
         Goto(p, f, 1, [f.l EXCEPT !.params = Append(@, <<f.l.param_name, r>>)])
    [] f.pc = 3 ->
         Bind(if_token_consume(p, "Assign"), LAMBDA a :
           IF a.b THEN Call(a.p, f, 4, [f.l EXCEPT !.value_type = r], "expr", NoArg)
           ELSE Call(consume(a.p, "LeftBrace").p, f, 5, [f.l EXCEPT !.value_type = r],
                     "block_stmts", NoArg))
    [] f.pc = 4 ->
         Return(consume(p, "Semi").p,
                StmtFunc(f.l.name, f.l.value_type, BodyStatements(<<StmtReturn(r)>>),
                         f.l.params, f.l.is_async, f.l.is_pub))
    [] f.pc = 5 ->
         Return(p, StmtFunc(f.l.name, f.l.value_type, BodyStatements(r), f.l.params,
                            f.l.is_async, f.l.is_pub))

\* if_stmt from its `while self.if_token_consume(ElseIf)` on
if_stmt_rest(f, p, l) ==
  Bind(if_token_consume(p, "ElseIf"), LAMBDA ei :
    IF ei.b THEN Call(ei.p, f, 3, l, "expr", NoArg)
    ELSE Bind(if_token_consume(ei.p, "Else"), LAMBDA el :
           IF el.b THEN Call(el.p, f, 5, l, "block_stmts", NoArg)
           ELSE Return(el.p, StmtIf(l.cond, l.body, l.else_if_branches, None))))

if_stmt_step(f, p, r) ==
  CASE f.pc = 0 -> Call(p, f, 1, f.l, "expr", NoArg)
    [] f.pc = 1 -> Call(p, f, 2, [f.l EXCEPT !.cond = r], "block_stmts", NoArg)
    [] f.pc = 2 -> if_stmt_rest(f, p, [f.l EXCEPT !.body = r])
    [] f.pc = 3 -> Call(p, f, 4, [f.l EXCEPT !.elif_preds = r], "block_stmts", NoArg)
    [] f.pc = 4 ->
         if_stmt_rest(f, p, [f.l EXCEPT !.else_if_branches =
                                           Append(@, <<f.l.elif_preds, r>>)])
    [] f.pc = 5 ->
         Return(p, StmtIf(f.l.cond, f.l.body, f.l.else_if_branches, Some(r)))

return_stmt_step(f, p, r) ==
  CASE f.pc = 0 ->
         Bind(is_token(p, "Semi"), LAMBDA s :
           IF s.b
           THEN Bind(next_id(s.p), LAMBDA i :
                  Return(consume(i.p, "Semi").p, StmtReturn(ExprValue(i.v, LitNull))))
           ELSE Call(s.p, f, 1, f.l, "expr", NoArg))
    [] f.pc = 1 -> Return(consume(p, "Semi").p, StmtReturn(r))

while_stmt_step(f, p, r) ==
  CASE f.pc = 0 -> Call(p, f, 1, f.l, "expr", NoArg)
    [] f.pc = 1 -> Call(p, f, 2, [f.l EXCEPT !.cond = r], "block_stmts", NoArg)
    [] f.pc = 2 -> Return(p, StmtWhile(f.l.cond, r))

\* `num as usize` for an f64 with an integer value: a negative number becomes
\* 0 (the cast saturates)
as_usize(num) == IF num < 0 THEN 0 ELSE num

\* a count that is only cast: a fault used to test that a claim depends on
\* loop_iter
loop_iter_cast(num) == Some(as_usize(num))

\* loop_stmt's `if num < 0.0 { Some(1) } else { Some(num as usize) }`
loop_iter(num) == IF num < 0 THEN Some(1) ELSE Some(as_usize(num))

loop_stmt_step(f, p, r) ==
  CASE f.pc = 0 ->
         Bind(is_token(p, "NumberLit"), LAMBDA n :
           IF n.b
           THEN Bind(consume(n.p, "NumberLit"), LAMBDA c :
                  IF c.tok.value.some /\ c.tok.value.v.k = "Number"
                  THEN Call(c.p, f, 1, [f.l EXCEPT !.iter = loop_iter(c.tok.value.v.value)],
                            "block_stmts", NoArg)
                  ELSE Raise(throw_lexeme(c.p, "E0x202")))
           ELSE Call(n.p, f, 1, [f.l EXCEPT !.iter = None], "block_stmts", NoArg))
    [] f.pc = 1 -> Return(p, StmtLoop(f.l.iter, r))

break_stmt_step(f, p, r) == Return(consume(p, "Semi").p, StmtBreak)

\* a match_stmt that demands a `_` arm: a fault used to test that a claim
\* depends on the arm being optional
match_stmt_default_demanded(f, p, l) ==
  Bind(consume(p, "Underscore"), LAMBDA u :
    Call(consume(u.p, "ArrowBig").p, f, 7, l, "expr", NoArg))

\* match_stmt after its loop over the cases
match_stmt_default(f, p, l) ==
  Bind(if_token_consume(p, "Underscore"), LAMBDA u :
    IF u.b
    THEN Bind(if_token_consume(consume(u.p, "ArrowBig").p, "LeftBrace"), LAMBDA lb :
           IF lb.b THEN Call(lb.p, f, 6, l, "block_stmts", NoArg)
           ELSE Call(lb.p, f, 7, l, "expr", NoArg))
    ELSE Return(consume(u.p, "RightBrace").p, StmtMatch(l.cond, l.cases, l.def_case)))

\* the head of match_stmt's while loop over the cases
match_stmt_cases(f, p, l) ==
  Bind(is_literal(p), LAMBDA lit :
    IF lit.b THEN Call(lit.p, f, 3, l, "expr", NoArg)
    ELSE Bind(is_uppercase_ident(lit.p), LAMBDA up :
           IF up.b THEN Call(up.p, f, 3, l, "expr", NoArg)
           ELSE match_stmt_default(f, up.p, l)))

match_stmt_step(f, p, r) ==
  CASE f.pc = 0 -> Call(p, f, 1, f.l, "expr", NoArg)
    [] f.pc = 1 -> Goto(consume(p, "LeftBrace").p, f, 2, [f.l EXCEPT !.cond = r])
    [] f.pc = 2 -> match_stmt_cases(f, p, f.l)
    [] f.pc = 3 ->
         Bind(if_token_advance(consume(p, "ArrowBig").p, "LeftBrace"), LAMBDA lb :
           IF lb.b THEN Call(lb.p, f, 4, [f.l EXCEPT !.expr = r], "block_stmts", NoArg)
           ELSE Call(lb.p, f, 5, [f.l EXCEPT !.expr = r], "expr", NoArg))
    [] f.pc = 4 ->
         Goto(consume(p, "RightBrace").p, f, 2,
              [f.l EXCEPT !.cases = Append(@, <<f.l.expr, BodyStatements(r)>>)])
    [] f.pc = 5 ->
         Goto(consume(p, "Comma").p, f, 2,
              [f.l EXCEPT !.cases = Append(@, <<f.l.expr, BodyExpression(r)>>)])
    [] f.pc = 6 ->
         Return(consume(p, "RightBrace").p,
                StmtMatch(f.l.cond, f.l.cases, BodyStatements(r)))
    [] f.pc = 7 ->
         Return(consume(p, "RightBrace").p,
                StmtMatch(f.l.cond, f.l.cases, BodyExpression(r)))

mod_stmt_step(f, p, r) ==
  Bind(consume(p, "StringLit"), LAMBDA src :
    Return(consume(src.p, "Semi").p, StmtMod(src.tok.lexeme)))

\* use_stmt after the names: the source and the `;`
use_stmt_end(p, names, all) ==
  Bind(consume(p, "StringLit"), LAMBDA src :
    Return(consume(src.p, "Semi").p, StmtUse(src.tok.lexeme, names, all)))

use_stmt_step(f, p, r) ==
  CASE f.pc = 0 ->
         Bind(if_token_advance(p, "Mult"), LAMBDA m :
           IF m.b THEN use_stmt_end(consume(m.p, "From").p, <<>>, TRUE)
           ELSE Goto(m.p, f, 1, f.l))
    [] f.pc = 1 ->
         Bind(if_token_advance(p, "From"), LAMBDA fr :
           IF fr.b THEN use_stmt_end(fr.p, f.l.names, FALSE)
           ELSE Bind(consume(fr.p, "Ident"), LAMBDA n :
                  Bind(if_token_consume(n.p, "As"), LAMBDA a :
                    IF a.b
                    THEN Bind(consume(a.p, "Ident"), LAMBDA an :
                           Goto(if_token_consume(an.p, "Comma").p, f, 1,
                                [f.l EXCEPT !.names = Append(@, <<n.tok, Some(an.tok)>>)]))
                    ELSE Goto(if_token_consume(a.p, "Comma").p, f, 1,
                              [f.l EXCEPT !.names = Append(@, <<n.tok, None>>)]))))

enum_stmt_step(f, p, r) ==
  CASE f.pc = 0 ->
         Bind(if_token_consume(p, "Pub"), LAMBDA pb :
           Bind(consume_uppercase_ident(pb.p), LAMBDA n :
             Goto(consume(n.p, "LeftBrace").p, f, 1,
                  [f.l EXCEPT !.is_pub = pb.b, !.name = n.tok])))
    [] f.pc = 1 ->
         Bind(if_token_consume(p, "RightBrace"), LAMBDA e :
           IF e.b THEN Return(e.p, StmtEnum(f.l.name, f.l.enums, f.l.is_pub))
           ELSE Bind(consume(e.p, "Ident"), LAMBDA n :
                  Goto(separator(n.p, "RightBrace"), f, 1,
                       [f.l EXCEPT !.enums = Append(@, n.tok)])))

block_stmts_step(f, p, r) ==
  CASE f.pc = 0 -> Call(p, f, 1, f.l, "block_stmt", NoArg)
    [] f.pc = 1 ->
         IF r.s = "Block" THEN Return(consume(p, "RightBrace").p, r.stmts)
         ELSE Raise(throw_error(p, "E0x203", <<"a block statement">>))

block_stmt_step(f, p, r) ==
  CASE f.pc = 0 ->
         Bind(is_token(p, "RightBrace"), LAMBDA rb :
           IF rb.b THEN Return(rb.p, StmtBlock(f.l.stmts))
           ELSE Bind(is_token(rb.p, "Eof"), LAMBDA eo :
                  IF eo.b THEN Return(eo.p, StmtBlock(f.l.stmts))
                  ELSE Call(eo.p, f, 1, f.l, "stmt", NoArg)))
    [] f.pc = 1 -> Goto(p, f, 0, [f.l EXCEPT !.stmts = Append(@, r)])

expr_stmt_step(f, p, r) ==
  CASE f.pc = 0 -> Call(retreat(p).p, f, 1, f.l, "expr", NoArg)
    [] f.pc = 1 -> Return(consume(p, "Semi").p, StmtExpression(r))


(***************************************************************************)
(* The actions: one per parser method.                                     *)
(***************************************************************************)
parse == Running("parse") /\ Apply(parse_step(Top, P, ret))
stmt == Running("stmt") /\ Apply(stmt_step(Top, P, ret))
var_stmt == Running("var_stmt") /\ Apply(var_stmt_step(Top, P, ret))
func_stmt == Running("func_stmt") /\ Apply(func_stmt_step(Top, P, ret))
if_stmt == Running("if_stmt") /\ Apply(if_stmt_step(Top, P, ret))
return_stmt == Running("return_stmt") /\ Apply(return_stmt_step(Top, P, ret))
while_stmt == Running("while_stmt") /\ Apply(while_stmt_step(Top, P, ret))
loop_stmt == Running("loop_stmt") /\ Apply(loop_stmt_step(Top, P, ret))
break_stmt == Running("break_stmt") /\ Apply(break_stmt_step(Top, P, ret))
match_stmt == Running("match_stmt") /\ Apply(match_stmt_step(Top, P, ret))
mod_stmt == Running("mod_stmt") /\ Apply(mod_stmt_step(Top, P, ret))
use_stmt == Running("use_stmt") /\ Apply(use_stmt_step(Top, P, ret))
enum_stmt == Running("enum_stmt") /\ Apply(enum_stmt_step(Top, P, ret))
block_stmts == Running("block_stmts") /\ Apply(block_stmts_step(Top, P, ret))
block_stmt == Running("block_stmt") /\ Apply(block_stmt_step(Top, P, ret))
expr_stmt == Running("expr_stmt") /\ Apply(expr_stmt_step(Top, P, ret))
expr == Running("expr") /\ Apply(expr_step(Top, P, ret))
assign == Running("assign") /\ Apply(assign_step(Top, P, ret))
binary == Running("binary") /\ Apply(binary_step(Top, P, ret))
unary == Running("unary") /\ Apply(unary_step(Top, P, ret))
call == Running("call") /\ Apply(call_step(Top, P, ret))
array_call == Running("array_call") /\ Apply(array_call_step(Top, P, ret))
struct_call == Running("struct_call") /\ Apply(struct_call_step(Top, P, ret))
enum_call == Running("enum_call") /\ Apply(enum_call_step(Top, P, ret))
func_call == Running("func_call") /\ Apply(func_call_step(Top, P, ret))
method == Running("method") /\ Apply(method_step(Top, P, ret))
method_body == Running("method_body") /\ Apply(method_body_step(Top, P, ret))
primary == Running("primary") /\ Apply(primary_step(Top, P, ret))
arr_expr == Running("arr_expr") /\ Apply(arr_expr_step(Top, P, ret))
group_expr == Running("group_expr") /\ Apply(group_expr_step(Top, P, ret))
func_expr == Running("func_expr") /\ Apply(func_expr_step(Top, P, ret))
await_expr == Running("await_expr") /\ Apply(await_expr_step(Top, P, ret))
consume_type == Running("consume_type") /\ Apply(consume_type_step(Top, P, ret))
parse_func_type == Running("parse_func_type") /\ Apply(parse_func_type_step(Top, P, ret))
parse_array_type == Running("parse_array_type") /\ Apply(parse_array_type_step(Top, P, ret))

(***************************************************************************)
(* The token sequences parsed.  The lexer is outside the parser: a token   *)
(* sequence is written as the words of the source text, and Word gives the *)
(* token of a word, with the decoded payload the lexer owes the parser.    *)
(***************************************************************************)
Keywords ==
  [let |-> "Let", func |-> "Func", if |-> "If", else |-> "Else", elif |-> "ElseIf",
   return |-> "Return", while |-> "While", loop |-> "Loop", break |-> "Break",
   match |-> "Match", mod |-> "Mod", use |-> "Use", as |-> "As", from |-> "From",
   enum |-> "Enum", async |-> "Async", await |-> "Await", pub |-> "Pub", mut |-> "Mut",
   number |-> "NumberIdent", string |-> "StringIdent", char |-> "CharIdent",
   bool |-> "BoolIdent", null |-> "NullIdent", void |-> "VoidIdent",
   array |-> "ArrayIdent", any |-> "AnyIdent", true |-> "TrueLit", false |-> "FalseLit",
   nil |-> "NullLit"]

Punctuation ==
  {"Not", "NotNot", "Percent", "And", "AndAnd", "Mult", "Square", "LeftParen",
   "RightParen", "Minus", "Decr", "Arrow", "ArrowBig", "Underscore", "Plus",
   "Increment", "Assign", "Eq", "NotEq", "PlusEq", "MinEq", "MultEq", "DivEq",
   "LeftBrace", "RightBrace", "LeftBracket", "RightBracket", "Semi", "Colon",
   "DblColon", "Less", "LessOrEq", "Greater", "GreaterOrEq", "Comma", "Dot",
   "Divide", "Queston", "Pipe", "Or"}

Numbers ==
  ("0" :> 0) @@ ("1" :> 1) @@ ("2" :> 2) @@ ("3" :> 3) @@ ("-1" :> -1) @@ ("-5" :> -5)

Identifiers == {"a", "b", "c", "f", "v", "w", "x", "y", "z", "A", "B", "K"}

Word(w) ==
  IF w \in DOMAIN Keywords THEN [token |-> Keywords[w], lexeme |-> w, value |-> None]
  ELSE IF w \in DOMAIN Numbers
       THEN [token |-> "NumberLit", lexeme |-> w, value |-> Some([k |-> "Number", value |-> Numbers[w]])]
  ELSE IF w \in Identifiers THEN [token |-> "Ident", lexeme |-> w, value |-> None]
  ELSE IF w = "'p'"
       THEN [token |-> "StringLit", lexeme |-> w, value |-> Some([k |-> "String", value |-> "p"])]
  ELSE CHOOSE t \in [token : Punctuation, lexeme : {w}, value : {None}] :
         to_string(t.token) = w

\* the tokens of a text, each at its place, and the end-of-input token
Lex(ws) ==
  [i \in 1..(Len(ws) + 1) |->
     IF i <= Len(ws)
     THEN Token(Word(ws[i]).token, Word(ws[i]).lexeme, Word(ws[i]).value, 1, i - 1)
     ELSE Token("Eof", "", None, 1, i - 1)]

\* texts that between them reach every form of statement, expression and type
Samples ==
  { <<"let", "x", ":", "number", "=", "1", ";">>,
    <<"let", "pub", "x", ":", "number", "=", "1", ";">>,
    <<"let", "pub", "(", "y", ")", "z", ":", "number", "=", "1", ";">>,
    <<"let", "mut", "x", ":", "'p'", "=", "'p'", ";">>,
    <<"let", "f", ":", "|", "number", ",", "string", "|", "number", "=",
      "|", "|", "x", ":", "number", ",", "y", ":", "a", "|", ":", "x", "+", "y", ";", ";">>,
    <<"let", "f", ":", "any", "=", "|", "|", "_", "|", "{", "return", ";", "}", ";">>,
    <<"let", "x", ":", "<", "number", ">", "=", "[", "1", ",", "2", "]", ";">>,
    <<"let", "x", ":", "<", "(", "1", ",", "2", ")", "number", ">", "=", "[", "]", ";">>,
    <<"a", ".", "b", "(", "1", ")", ".", "c", "[", "2", "]", ";">>,
    <<"a", ".", "b", "(", "1", ",", "2", ")", ".", "c", "(", ")", ";">>,
    <<"a", "[", "2", "]", ";">>,
    <<"a", "b", "[", "2", "]", ";">>,
    <<"a", "b", "(", "1", ",", "2", ")", ";">>,
    <<"(", "a", ")", ";">>,
    <<"a", "(", "b", ".", "c", "(", "1", ")", ")", ";">>,
    <<"await", "a", ";">>,
    <<"a", "=", "b", "=", "1", ";">>,
    <<"a", "+=", "1", ";">>,
    <<"a", "+", "b", "=", "1", ";">>,
    <<"(", "a", ")", "=", "1", ";">>,
    <<"a", "+", "b", "*", "c", ";">>,
    <<"-", "a", "+", "b", ";">>,
    <<"!", "-", "a", ";">>,
    <<"true", "&&", "false", "||", "nil", ";">>,
    <<"func", "f", "(", "a", ":", "number", ",", "b", ":", "string", ")", "->", "number",
      "=", "a", ";">>,
    <<"func", "pub", "async", "f", "(", ")", "->", "void", "{", "return", "a", ";", "}">>,
    <<"func", "async", "pub", "f", "(", ")", "->", "void", "{", "}">>,
    <<"if", "a", "{", "b", ";", "}", "elif", "c", "{", "}", "else", "{", "}">>,
    <<"if", "a", "{", "}", "b", ";">>,
    <<"while", "a", "{", "break", ";", "}">>,
    <<"match", "a", "{", "}">>,
    <<"match", "a", "{", "}", "b", ";">>,
    <<"match", "a", "{", "1", "=>", "b", ",", "K", "=>", "c", ",", "_", "=>", "{", "}", "}">>,
    <<"match", "a", "{", "K", "=>", "{", "a", ";", "}", "}">>,
    <<"match", "a", "{", "_", "=>", "b", "}">>,
    <<"mod", "'p'", ";">>,
    <<"use", "*", "from", "'p'", ";">>,
    <<"use", "a", "as", "b", ",", "c", "from", "'p'", ";">>,
    <<"enum", "pub", "A", "{", "B", ",", "K", "}">>,
    <<"enum", "a", "{", "}">>,
    <<"{", "a", ";", "}", "b", ";">>,
    <<"{", "a", ";">>,
    <<"let", "x">>,
    <<"a", ";", "let", "x">>,
    <<"|", "_", "|", ":", "a", ";", ";">>,
    <<"|", "x", ":", "number", "|", ":", "x", ";", ";">>,
    <<"|", "|", "_", "|", ":", "a", ";", ";">>,
    <<"let", "x", ":", "=", "1", ";">>,
    <<"let", "x", ":", "<", "(", "a", ",", "2", ")", "number", ">", "=", "[", "]", ";">> }

\* declarations: `let`, a modifier, the names, one of the three forms, and
\* nothing or a statement after
VarDecls ==
  LET Modifiers == { <<>>, <<"mut">>, <<"pub">>, <<"pub", "(", "y", ")">>,
                     <<"pub", "(", "y", ",", "w", ")">>, <<"pub", "(", "y", ",", ")">> }
      NameLists == { <<"x">>, <<"x", ",", "z">> }
      Forms     == { <<";">>, <<":", "null", ";">>, <<":", "number", "=", "1", ";">> }
      Followers == { <<>>, <<"a", ";">> }
  IN  { <<"let">> \o m \o n \o t \o fo :
          m \in Modifiers, n \in NameLists, t \in Forms, fo \in Followers }

\* loops: `loop`, a count or none, a body
Loops ==
  LET Counts == { <<>> } \cup { <<n>> : n \in DOMAIN Numbers }
      Bodies == { <<"{", "}">>, <<"{", "a", ";", "}">> }
  IN  { <<"loop">> \o c \o b : c \in Counts, b \in Bodies }

\* postfix chains: `a`, up to MaxChain suffixes, `;`
RECURSIVE ChainsOf(_)
ChainsOf(n) ==
  LET Suffixes == { <<".", "b">>, <<".", "b", "(", "1", ")">>, <<"(", "1", ")">>,
                    <<"[", "2", "]">>, <<"::", "B">>, <<"c">> }
  IN  IF n = 0 THEN { <<>> }
      ELSE { c \o sf : c \in ChainsOf(n - 1), sf \in Suffixes }
Chains ==
  { <<"a">> \o c \o <<";">> : c \in UNION { ChainsOf(n) : n \in 0..MaxChain } }

\* every text of at most MaxLen words of Alphabet
Short ==
  LET Alphabet == {"let", "a", ";", "{", "}", "await", "(", ")", ".", "1", "=", "loop"}
  IN  UNION { [1..n -> Alphabet] : n \in 0..MaxLen }

\* operations: three operands with any two binary operators between them,
\* and a prefix operator on the first of two operands
Operations ==
  LET Binary == { to_string(BinaryOperators[i]) : i \in 1..Len(BinaryOperators) }
      Unary  == { to_string(UnaryOperators[i]) : i \in 1..Len(UnaryOperators) }
  IN  { <<"a", o1, "1", o2, "c", ";">> : o1, o2 \in Binary }
        \cup { <<u, "a", o, "b", ";">> : u \in Unary, o \in Binary }

Inputs ==
  { Lex(ws) : ws \in Samples \cup VarDecls \cup Loops \cup Chains \cup Operations \cup Short }

\* a Parser that keeps the id counter of the Parser before it: a fault used
\* to test that a claim depends on new
new_stale(toks) ==
  [tokens |-> toks, crnt |-> 0, id |-> IF trace = <<>> THEN 0 ELSE id]

\* Parser::new(tokens, err); err is the diagnostics reporter, which holds no
\* state of the parse
new(toks) == [tokens |-> toks, crnt |-> 0, id |-> 0]

\* The history kept for the claims: run is the number of the Parser
\* instance, trace the cursor and the id counter after each step of its
\* parse, and first the finished parse of the first instance.

\* a Parser is made and parse() is called on it
Init ==
  /\ trace = <<>>
  /\ run = 1
  /\ first = [trace |-> <<>>, status |-> "run", err |-> NoErr, result |-> <<>>]
  /\ \E toks \in Inputs :
       /\ tokens = new(toks).tokens
       /\ crnt = new(toks).crnt
       /\ id = new(toks).id
  /\ stack = <<Frame("parse", 0, NoArg)>>
  /\ ret = NoVal
  /\ status = "run"
  /\ err = NoErr
  /\ result = <<>>

\* after the first parse ended, a second Parser is made for the same tokens
\* and parse() is called on it
again ==
  /\ run = 1
  /\ status # "run"
  /\ run' = 2
  /\ first' = [trace |-> trace, status |-> status, err |-> err, result |-> result]
  /\ trace' = <<>>
  /\ tokens' = new(tokens).tokens
  /\ crnt' = new(tokens).crnt
  /\ id' = new(tokens).id
  /\ stack' = <<Frame("parse", 0, NoArg)>>
  /\ ret' = NoVal
  /\ status' = "run"
  /\ err' = NoErr
  /\ result' = <<>>

Next ==
  \/ parse \/ stmt \/ var_stmt \/ func_stmt \/ if_stmt \/ return_stmt \/ while_stmt
  \/ loop_stmt \/ break_stmt \/ match_stmt \/ mod_stmt \/ use_stmt \/ enum_stmt
  \/ block_stmts \/ block_stmt \/ expr_stmt \/ expr \/ assign \/ binary \/ unary
  \/ call \/ array_call \/ struct_call \/ enum_call \/ func_call \/ method
  \/ method_body \/ primary \/ arr_expr \/ group_expr \/ func_expr \/ await_expr
  \/ consume_type \/ parse_func_type \/ parse_array_type

\* one parse of each token sequence
Spec == Init /\ [][Next]_vars

\* two parses of each token sequence, by two Parser instances
SpecTwice == Init /\ [][Next \/ again]_vars

(***************************************************************************)
(* The nodes of a syntax tree, in the order of a walk from the root:       *)
(* every Statement and every Expression it holds.                          *)
(***************************************************************************)
RECURSIVE NodesOfExpr(_), NodesOfExprs(_), NodesOfBody(_), NodesOfStmt(_)
RECURSIVE NodesOfStmts(_), NodesOfBranches(_), NodesOfCases(_)

NodesOfExpr(e) ==
  <<e>> \o
  CASE e.k = "Assign" -> NodesOfExpr(e.value)
    [] e.k = "Binary" -> NodesOfExpr(e.left) \o NodesOfExpr(e.right)
    [] e.k = "Unary" -> NodesOfExpr(e.left)
    [] e.k = "Call" -> NodesOfExpr(e.name) \o NodesOfExprs(e.args)
    [] e.k = "Method" -> NodesOfExpr(e.left) \o NodesOfExprs(e.args)
    [] e.k = "Array" -> NodesOfExprs(e.items)
    [] e.k = "Grouping" -> NodesOfExpr(e.expression)
    [] e.k = "Func" -> NodesOfBody(e.body)
    [] e.k = "Await" -> NodesOfExpr(e.expr)
    [] OTHER -> <<>>

NodesOfExprs(es) ==
  IF es = <<>> THEN <<>> ELSE NodesOfExpr(Head(es)) \o NodesOfExprs(Tail(es))

NodesOfBody(b) ==
  IF b.b = "Statements" THEN NodesOfStmts(b.stmts) ELSE NodesOfExpr(b.expr)

NodesOfStmt(st) ==
  <<st>> \o
  CASE st.s = "Var" -> IF st.value.some THEN NodesOfExpr(st.value.v) ELSE <<>>
    [] st.s = "Func" -> NodesOfBody(st.body)
    [] st.s = "If" ->
         NodesOfExpr(st.cond) \o NodesOfStmts(st.body)
           \o NodesOfBranches(st.else_if_branches)
           \o (IF st.else_branch.some THEN NodesOfStmts(st.else_branch.v) ELSE <<>>)
    [] st.s = "Return" -> NodesOfExpr(st.expr)
    [] st.s = "While" -> NodesOfExpr(st.cond) \o NodesOfStmts(st.body)
    [] st.s = "Loop" -> NodesOfStmts(st.body)
    [] st.s = "Match" ->
         NodesOfExpr(st.cond) \o NodesOfCases(st.cases) \o NodesOfBody(st.def_case)
    [] st.s = "Block" -> NodesOfStmts(st.stmts)
    [] st.s = "Expression" -> NodesOfExpr(st.expr)
    [] OTHER -> <<>>

NodesOfStmts(sts) ==
  IF sts = <<>> THEN <<>> ELSE NodesOfStmt(Head(sts)) \o NodesOfStmts(Tail(sts))

\* the (condition, block) pairs of an if statement
NodesOfBranches(bs) ==
  IF bs = <<>> THEN <<>>
  ELSE NodesOfExpr(Head(bs)[1]) \o NodesOfStmts(Head(bs)[2]) \o NodesOfBranches(Tail(bs))

\* the (pattern, body) pairs of a match statement
NodesOfCases(cs) ==
  IF cs = <<>> THEN <<>>
  ELSE NodesOfExpr(Head(cs)[1]) \o NodesOfBody(Head(cs)[2]) \o NodesOfCases(Tail(cs))

\* the nodes of the returned tree, its Expression nodes, and their identities
Tree == NodesOfStmts(result)
Expressions == SelectSeq(Tree, LAMBDA n : "id" \in DOMAIN n)
Identities == [i \in 1..Len(Expressions) |-> Expressions[i].id]
Declarations == SelectSeq(Tree, LAMBDA n : "s" \in DOMAIN n /\ n.s = "Var")

\* the index of the end-of-input token (the cursor counts from 0)
EofIndex == Len(tokens) - 1

\* the token types of a token sequence
Types(toks) == [i \in 1..Len(toks) |-> toks[i].token]

(***************************************************************************)
(* Termination and the cursor.                                             *)
(***************************************************************************)
\* C1, as stated: the parser never recurses without advancing the cursor: no
\* method is entered at a cursor position at which a call of the same method
\* is still active (the methods read only the tokens and the cursor, so such
\* a call repeats its caller for ever).  The parse of `await a ;` violates it.
C1_NoRecursionWithoutAdvance ==
  \A i, j \in 1..Len(stack) :
    (i < j /\ stack[i].fn = stack[j].fn) => stack[i].at # stack[j].at

\* C2, as stated: in every reachable state the cursor is at most the index of
\* the end-of-input token (advance leaves the cursor there).  The parse of
\* `{` violates it: stmt advances from the end-of-input token.
C2_CursorAtMostEof == crnt <= EofIndex

\* C3: peek() is never evaluated out of bounds: no step of a parse evaluates
\* peek, directly or through check, is_token, are_tokens, consume or
\* throw_error, with the cursor outside the tokens (which panics).
C3_PeekInBounds == status # "panic"

\* C3's case: the cursor went one past the end-of-input token, and later
\* throw_error evaluated peek at the end-of-input token.
C3_PeekAfterOverrun ==
  /\ status = "error"
  /\ crnt = EofIndex
  /\ \E i \in 1..Len(trace) : trace[i][1] = Len(tokens)

(***************************************************************************)
(* Identities.                                                             *)
(***************************************************************************)
\* C4: for any successful parse the identities of the Expression nodes of the
\* returned tree are pairwise distinct.
C4_IdentitiesDistinct ==
  status = "complete" =>
    \A i, j \in 1..Len(Identities) : i # j => Identities[i] # Identities[j]

\* C4's case: a returned tree that holds a Call, with its rebuilt callee Var,
\* and a Method, with its cloned receiver.
C4_CallAndMethodReturned ==
  /\ status = "complete"
  /\ \E i \in 1..Len(Expressions) : Expressions[i].k = "Call"
  /\ \E i \in 1..Len(Expressions) : Expressions[i].k = "Method"

\* C5, as stated: for any successful parse the identities in the returned
\* tree are 0, 1, .. with none skipped, and the id counter ends at the number
\* of Expression nodes.  The parse of `let x : number = 1 ;` violates it.
C5_IdentitiesZeroBased ==
  status = "complete" =>
    /\ {Identities[i] : i \in 1..Len(Identities)} = 0..(Len(Identities) - 1)
    /\ id = Len(Identities)

NullDeclaration(st) ==
  /\ st.s = "Var"
  /\ [i \in 1..Len(st.names) |-> st.names[i].lexeme] = <<"x">>
  /\ st.pub_names = st.names
  /\ st.value_type.token = "NullIdent"
  /\ st.value.some /\ st.value.v.k = "Value" /\ st.value.v.value = LitNull
  /\ ~st.is_mut /\ ~st.is_pub /\ ~st.is_func

\* C7, as stated: `let x ;` and `let x : null ;` both parse successfully, to
\* the same declaration of x with a null-literal initializer, and the parse
\* ends after the `;`.  The parse of `let x : null ;` violates it.
C7_NullFormsAgree ==
  tokens \in { Lex(<<"let", "x", ";">>), Lex(<<"let", "x", ":", "null", ";">>) } =>
    /\ status \in {"run", "complete"}
    /\ status = "complete" =>
         /\ crnt = EofIndex
         /\ Len(result) = 1
         /\ NullDeclaration(result[1])

\* the text `a . b ( 1 ) . c [ 2 ] ;`
Chain == <<"a", ".", "b", "(", "1", ")", ".", "c", "[", "2", "]", ";">>

\* C8, as stated: `a.b(1).c[2]` parses successfully, to an array-index Call
\* with argument 2 whose tree holds a struct-field Call named c and the
\* method call b on the receiver a with argument 1.  The parse of
\* `a . b ( 1 ) . c [ 2 ] ;` violates it.
C8_ChainParsesLeftToRight ==
  tokens = Lex(Chain) =>
    /\ status \in {"run", "complete"}
    /\ status = "complete" =>
         /\ Len(result) = 1
         /\ result[1].s = "Expression"
         /\ result[1].expr.k = "Call"
         /\ result[1].expr.call_type = "Array"
         /\ Len(result[1].expr.args) = 1
         /\ result[1].expr.args[1].k = "Value"
         /\ result[1].expr.args[1].value = [k |-> "Number", value |-> 2]
         /\ \E i \in 1..Len(Expressions) :
              /\ Expressions[i].k = "Call"
              /\ Expressions[i].call_type = "Struct"
              /\ Expressions[i].name.name.lexeme = "c"
         /\ \E i \in 1..Len(Expressions) :
              /\ Expressions[i].k = "Method"
              /\ Expressions[i].name.lexeme = "b"
              /\ Expressions[i].left.k = "Var"
              /\ Expressions[i].left.name.lexeme = "a"
              /\ Len(Expressions[i].args) = 1
              /\ Expressions[i].args[1].value = [k |-> "Number", value |-> 1]

\* the text is a declaration with a parenthesized list after `pub`
Listed ==
  Len(tokens) > 3 /\ Types(SubSeq(tokens, 1, 3)) = <<"Let", "Pub", "LeftParen">>

\* the names between the parentheses after `pub`
ExportList ==
  SelectSeq(SubSeq(tokens, 4,
                   (CHOOSE k \in 4..Len(tokens) :
                      /\ tokens[k].token = "RightParen"
                      /\ \A j \in 4..(k - 1) : tokens[j].token # "RightParen") - 1),
            LAMBDA t : t.token = "Ident")

\* C9: in a returned declaration the export names are the parenthesized list
\* after `pub` when one is given, and the bound names otherwise; the bound
\* names of a returned declaration are never empty.
C9_ExportNames ==
  status = "complete" =>
    /\ \A i \in 1..Len(Declarations) : Declarations[i].names # <<>>
    /\ tokens[1].token = "Let" =>
         /\ result[1].s = "Var"
         /\ result[1].pub_names = IF Listed THEN ExportList ELSE result[1].names

\* C9's case: `let pub ( y ) z ..` returned, the export names not the bound names.
C9_ListedExportReturned ==
  /\ status = "complete"
  /\ Listed
  /\ result[1].pub_names # result[1].names
  /\ Len(result[1].pub_names) = 1

\* the iter of a loop whose `loop` is followed by the token t
CountAfterLoop(t) ==
  IF t.token = "NumberLit"
  THEN IF t.value.v.value < 0 THEN Some(1) ELSE Some(t.value.v.value)
  ELSE None

\* C10: the iter of a loop is 1 for a negative count, the count otherwise
\* (0 stays 0), and absent when no numeric literal follows `loop`; loop_stmt
\* rejects no count.
C10_LoopCount ==
  /\ \A i \in 1..Len(stack) :
       (stack[i].fn = "loop_stmt" /\ stack[i].pc = 1) =>
         stack[i].l.iter = CountAfterLoop(tokens[stack[i].at + 1])
  /\ ~(status = "error" /\ Top.fn = "loop_stmt")
  /\ (status = "complete" /\ tokens[1].token = "Loop") =>
       /\ result[1].s = "Loop"
       /\ result[1].iter = CountAfterLoop(tokens[2])

\* C10's case: `loop -5 { .. }` returned with iter 1.
C10_NegativeCountReturned ==
  /\ status = "complete"
  /\ tokens[1].token = "Loop"
  /\ tokens[2].lexeme = "-5"
  /\ result[1].iter = Some(1)

(***************************************************************************)
(* Diagnostics.                                                            *)
(***************************************************************************)
\* C11: `let x` followed by the end of input raises consume's diagnostic
\* E0x204 naming the expected `:` and returns no statement; and once any
\* diagnostic is raised no step of the parser is possible and parse() has
\* returned nothing, whatever statements were completed before.
C11_DiagnosticIsFatal ==
  /\ (tokens = Lex(<<"let", "x">>) /\ status # "run") =>
       /\ status = "error"
       /\ err.code = "E0x204"
       /\ err.args = <<":">>
  /\ status = "error" =>
       /\ result = <<>>
       /\ err # NoErr
       /\ ~ENABLED Next

\* C11's case: `a ; let x`: the diagnostic is raised when parse() holds one
\* finished statement.
C11_RaisedAfterAStatement ==
  /\ status = "error"
  /\ err.code = "E0x204"
  /\ err.args = <<":">>
  /\ Len(stack[1].l.stmts) = 1

(***************************************************************************)
(* Statements.                                                             *)
(***************************************************************************)
\* the text starts `match <subject> { }`, the subject one identifier
EmptyMatch ==
  /\ Len(tokens) >= 5
  /\ tokens[1].token = "Match"
  /\ tokens[2].token = "Ident"
  /\ tokens[3].token = "LeftBrace"
  /\ tokens[4].token = "RightBrace"

\* C12: `match <subject> { }` parses with no diagnostic to a Match with no
\* case and an empty default body, both braces consumed: the parse ends at
\* the end of input, or goes on with the statement after the `}`.
C12_EmptyMatchParses ==
  EmptyMatch =>
    /\ status \in {"run", "complete"}
    /\ status = "complete" =>
         /\ result[1] = StmtMatch(ExprVar(0, tokens[2]), <<>>, BodyStatements(<<>>))
         /\ Len(result) = 1 <=> Len(tokens) = 5
         /\ crnt = EofIndex

\* C12's case: `match a { }` returned.
C12_EmptyMatchReturned ==
  /\ EmptyMatch
  /\ status = "complete"
  /\ Len(tokens) = 5
  /\ result[1].cases = <<>>

(***************************************************************************)
(* Expressions.                                                            *)
(***************************************************************************)
\* the step of assign once its right side is parsed: an Assign node to a
\* bare variable, the diagnostic for any other left side
AssignDecides ==
  (Running("assign") /\ Top.pc = 1) =>
    IF Top.l.expr.k = "Var"
    THEN /\ status' = "run"
         /\ ret' = ExprAssign(id, Top.l.expr.name, ret, Top.l.kind)
    ELSE /\ status' = "error"
         /\ err'.code = "E0x201"
         /\ err'.args = <<"Invalid assignment target">>
         /\ ret'.k # "Assign"

\* assign is entered just after one of `= += -= *= /=`, with its AssignKind
AssignAfterOperator ==
  \A i \in 1..Len(stack) :
    stack[i].fn = "assign" =>
      \E k \in 1..Len(AssignOperators) :
        /\ tokens[stack[i].at].token = AssignOperators[k][1]
        /\ stack[i].l.kind = AssignOperators[k][2]

\* `a = b = 1 ;` returned: `a` is assigned the Assign node of `b = 1`
AssignToTheRight ==
  (tokens = Lex(<<"a", "=", "b", "=", "1", ";">>) /\ status = "complete") =>
    /\ result[1].expr.k = "Assign"
    /\ result[1].expr.name = tokens[1]
    /\ result[1].expr.value.k = "Assign"
    /\ result[1].expr.value.name = tokens[3]
    /\ result[1].expr.value.value.k = "Value"

\* C13: a binary expression followed by one of `= += -= *= /=` becomes an
\* Assign node exactly when it is a bare variable reference, and raises the
\* fatal "Invalid assignment target" diagnostic for every other shape, no
\* Assign node produced; assignment associates to the right.
C13_AssignTargets ==
  /\ [](AssignAfterOperator /\ AssignToTheRight)
  /\ [][AssignDecides]_vars

\* C13's case: `a = b = 1 ;` returned with the inner assignment as the value
\* of the outer.
C13_NestedAssignReturned ==
  /\ status = "complete"
  /\ tokens = Lex(<<"a", "=", "b", "=", "1", ";">>)
  /\ result[1].expr.value.k = "Assign"

\* the expression e is the operand written as the token t
Operand(e, t) ==
  IF t.token = "Ident" THEN e.k = "Var" /\ e.name = t
  ELSE e.k = "Value" /\ e.value = t.value.v

\* the tokens from the i-th on are an operand
IsOperand(i) == tokens[i].token \in {"Ident", "NumberLit"}

\* the i-th token is a binary operator
IsBinary(i) ==
  \E k \in 1..Len(BinaryOperators) : tokens[i].token = BinaryOperators[k]

\* the text is `e1 op1 e2 op2 e3 ;`
TwoOperators ==
  /\ Len(tokens) = 7
  /\ IsOperand(1) /\ IsBinary(2) /\ IsOperand(3) /\ IsBinary(4) /\ IsOperand(5)
  /\ tokens[6].token = "Semi"

\* the text is `u e1 op e2 ;`
PrefixThenOperator ==
  /\ Len(tokens) = 6
  /\ \E k \in 1..Len(UnaryOperators) : tokens[1].token = UnaryOperators[k]
  /\ IsOperand(2) /\ IsBinary(3) /\ IsOperand(4)
  /\ tokens[5].token = "Semi"

\* C14: the binary operators have one precedence and group to the left:
\* `e1 op1 e2 op2 e3` is Binary(Binary(e1 op1 e2) op2 e3) for any two of
\* them; and a prefix operator binds tighter: `u e1 op e2` is
\* Binary(Unary(u e1) op e2).
C14_OnePrecedenceLeftToRight ==
  /\ TwoOperators =>
       /\ status \in {"run", "complete"}
       /\ status = "complete" =>
            /\ result[1].expr.k = "Binary"
            /\ result[1].expr.operator = tokens[4]
            /\ Operand(result[1].expr.right, tokens[5])
            /\ result[1].expr.left.k = "Binary"
            /\ result[1].expr.left.operator = tokens[2]
            /\ Operand(result[1].expr.left.left, tokens[1])
            /\ Operand(result[1].expr.left.right, tokens[3])
  /\ PrefixThenOperator =>
       /\ status \in {"run", "complete"}
       /\ status = "complete" =>
            /\ result[1].expr.k = "Binary"
            /\ result[1].expr.operator = tokens[3]
            /\ Operand(result[1].expr.right, tokens[4])
            /\ result[1].expr.left.k = "Unary"
            /\ result[1].expr.left.operator = tokens[1]
            /\ Operand(result[1].expr.left.left, tokens[2])

\* C14's case: `a + 1 * c ;` returned.
C14_SumThenProductReturned ==
  /\ status = "complete"
  /\ TwoOperators
  /\ tokens[2].token = "Plus"
  /\ tokens[4].token = "Mult"
  /\ result[1].expr.left.k = "Binary"

\* the texts `| _ | : a ; ;` and `| x : number | : x ; ;`: a function literal
\* with one opening pipe and an expression body, as a statement
OnePipeLiterals ==
  { Lex(<<"|", "_", "|", ":", "a", ";", ";">>),
    Lex(<<"|", "x", ":", "number", "|", ":", "x", ";", ";">>) }

\* C15, as stated: a function literal opened by one pipe parses to a Func
\* node: no parameter for `| _ |`, the name/type pairs in order for
\* `| x : number |`, and the body the expression after `:`.  Both texts
\* violate it: func_expr advances over the opening pipe and then demands a
\* second one.
C15_OnePipeOpensALiteral ==
  tokens \in OnePipeLiterals =>
    /\ status \in {"run", "complete"}
    /\ status = "complete" =>
         /\ result[1].expr.k = "Func"
         /\ result[1].expr.body.b = "Expression"
         /\ Len(result[1].expr.params) = (IF tokens[2].token = "Underscore" THEN 0 ELSE 1)

(***************************************************************************)
(* Types.                                                                  *)
(***************************************************************************)
\* C16, as stated: every token consume_type returns carries a decoded type
\* in its value slot, whichever branch returned it.  The parse of
\* `let x : = 1 ;` violates it: the branch for any other token returns a
\* token with an empty value slot.
C16_TypeTokenCarriesType ==
  [][(Running("consume_type") /\ Len(stack') < Len(stack)) =>
       (ret'.value.some /\ ret'.value.v.k = "Type")]_vars

\* C17, as stated: `match a { K => { a ; } }`, one case with a block body,
\* one closing brace for the case and one for the match, parses to a Match
\* with one case whose body is the statement `a ;`.  The parse violates it:
\* block_stmts consumes the case's `}` and match_stmt then consumes a second
\* `}` for the case, which is the match's own.
C17_BlockCaseClosesOnce ==
  tokens = Lex(<<"match", "a", "{", "K", "=>", "{", "a", ";", "}", "}">>) =>
    /\ status \in {"run", "complete"}
    /\ status = "complete" =>
         /\ result[1].s = "Match"
         /\ Len(result[1].cases) = 1
         /\ result[1].cases[1][2].b = "Statements"
         /\ Len(result[1].cases[1][2].stmts) = 1

\* C18, as stated: `a [ 2 ] ;` parses to an expression statement holding the
\* array-index Call of `a` with the one argument 2, the cursor after `]` when
\* the suffix is parsed.  The parse violates it: array_call, entered from the
\* `[` branch of call's loop, returns with the cursor on `]`.
C18_IndexConsumesItsBracket ==
  tokens = Lex(<<"a", "[", "2", "]", ";">>) =>
    /\ status \in {"run", "complete"}
    /\ status = "complete" =>
         /\ result[1].s = "Expression"
         /\ result[1].expr.k = "Call"
         /\ result[1].expr.call_type = "Array"
         /\ result[1].expr.name.name = tokens[1]
         /\ Len(result[1].expr.args) = 1

\* C19, as stated: `{ a ; } b ;` parses to two statements, a Block holding
\* `a ;` and the expression statement `b ;`: the block leaves the cursor
\* after its `}`.  The parse violates it: block_stmt, called by stmt,
\* returns with the cursor on the `}`.
C19_BlockConsumesItsBrace ==
  tokens = Lex(<<"{", "a", ";", "}", "b", ";">>) =>
    /\ status \in {"run", "complete"}
    /\ status = "complete" =>
         /\ Len(result) = 2
         /\ result[1].s = "Block"
         /\ Len(result[1].stmts) = 1
         /\ result[2].s = "Expression"

\* the text is a declaration `let x : < .. > = .. ;` with an array type
ArrayTyped ==
  /\ Len(tokens) >= 5
  /\ tokens[1].token = "Let"
  /\ tokens[3].token = "Colon"
  /\ tokens[4].token = "Less"

\* C20, as stated: an array type yields an Array type that holds its element
\* type in both forms: `< elem >` holds elem and no dimension list,
\* `< ( d1, .., dn ) elem >` holds elem and the dimensions in their order.
\* The parse of `let x : < ( 1 , 2 ) number > = [ ] ;` violates it: the
\* form with dimensions holds no element type.
C20_ArrayTypeHoldsElement ==
  (ArrayTyped /\ status = "complete") =>
    /\ result[1].value_type.token = "ArrayIdent"
    /\ result[1].value_type.value.v.t.t = "Array"
    /\ result[1].value_type.value.v.t.kind.some
    /\ result[1].value_type.value.v.t.statics.some <=> tokens[5].token = "LeftParen"
    /\ result[1].value_type.value.v.t.statics.some =>
         \A i, j \in 1..Len(result[1].value_type.value.v.t.statics.v) :
           i < j => result[1].value_type.value.v.t.statics.v[i].name.pos
                      < result[1].value_type.value.v.t.statics.v[j].name.pos

=============================================================================
